---- MODULE Spec2Model ----
(***************************************************************************)
(* Model of the PREDICTS / Major TOM matching pipeline: the match step     *)
(* (scripts/match_predicts_major_tom_fixed.py), the download script        *)
(* (scripts/download_major_tom_metadata.py) and load_data / create_figure  *)
(* of the figure scripts (viz/scripts).                                    *)
(*                                                                         *)
(* Representation.                                                         *)
(*  - A value that pandas may hold as missing (None, NaN, NaT) is a        *)
(*    sequence: <<>> is the missing value, <<v>> is the value v.           *)
(*  - Latitudes and longitudes are whole degrees.                          *)
(*  - Instants are whole hours; a date is the hour of its midnight.        *)
(*  - Angles, haversines and distances are fixed-point integers (scales    *)
(*    are given at each definition); distance_km is held in metres.        *)
(*  - A data-frame row and a dict are records; a data frame and a list     *)
(*    of dicts are sequences of records.                                   *)
(*  - The percentages of temporal_coverage are binary64 floats, computed   *)
(*    bit for bit.                                                         *)
(*  - A path is the sequence of its components.                            *)
(***************************************************************************)
EXTENDS Integers, Sequences, FiniteSets, TLC

(***************************************************************************)
(* Bounds of the model.                                                    *)
(***************************************************************************)
\* rows of each PREDICTS csv file
MaxRows == 1
\* rows of the Major TOM metadata table
MaxPatches == 2
\* matched sites in the frame temporal_coverage draws
MaxFigureSites == 3
\* sites in a table given to match_nearest_patches directly
MaxSites == 2

(***************************************************************************)
(* Optional values.                                                        *)
(***************************************************************************)
None == <<>>
Some(v) == <<v>>
IsNull(x) == x = <<>>
NotNull(x) == x # <<>>

Abs(x) == IF x < 0 THEN -x ELSE x

\* every sequence over S of length 0..n
SeqUpTo(S, n) == UNION {[1..k -> S] : k \in 0..n}

(***************************************************************************)
(* Program constants.                                                      *)
(***************************************************************************)
AG_LAND_USES == {"Cropland", "Pasture", "Plantation forest"}

\* Earth radius in km
R == 6371

\* main's arguments to match_nearest_patches
MainSearchRadiusDeg == 1
MainMaxCloudCover == 50

(***************************************************************************)
(* numpy trigonometry on the whole-degree arguments the model uses.        *)
(*   Cos(lat)       = round(10^4 * cos(radians(lat)))                      *)
(*   SinHalfSq(d)   = round(10^8 * sin(radians(d)/2)^2)                    *)
(* sin(x)^2 is even and has period 360 degrees in d, so one entry serves   *)
(* d and -d.                                                               *)
(***************************************************************************)
Cos(lat) ==
    CASE Abs(lat) = 79 -> 1908
      [] Abs(lat) = 80 -> 1736
      [] Abs(lat) = 81 -> 1564
      [] Abs(lat) = 82 -> 1392

SinHalfSq(d) ==
    CASE Abs(d) = 0 -> 0
      [] Abs(d) = 1 -> 7615
      [] Abs(d) = 2 -> 30459
      [] Abs(d) = 3 -> 68523
      [] Abs(d) = 356 -> 121797
      [] Abs(d) = 357 -> 68523
      [] Abs(d) = 358 -> 30459
      [] Abs(d) = 359 -> 7615
      [] Abs(d) = 360 -> 0

\* x * y / 10^8 for 0 <= x, y <= 10^8, without leaving 32 bits
MulScaled(x, y) ==
    LET xh == x \div 10000
        xl == x % 10000
        yh == y \div 10000
        yl == y % 10000
    IN  xh * yh + ((xh * yl + xl * yh + ((xl * yl) \div 10000)) \div 10000)

RECURSIVE SqrtIter(_, _, _)
\* largest r in lo..hi with r * r <= n
SqrtIter(n, lo, hi) ==
    IF lo >= hi THEN lo
    ELSE LET mid == (lo + hi + 1) \div 2
         IN  IF mid * mid <= n THEN SqrtIter(n, mid, hi)
             ELSE SqrtIter(n, lo, mid - 1)

\* np.sqrt, floor of the square root
Sqrt(n) == SqrtIter(n, 0, 46340)

\* np.arcsin on 10^-5 units: x + x^3/6 (the arguments are below 0.2)
ArcSin(x) ==
    LET x3 == (((x * x) \div 100000) * x) \div 100000
    IN  x + (x3 \div 6)

\* haversine_distance with the cosine of the first latitude taken twice
haversine_distanceOneLatitude(lat1, lon1, lat2, lon2) ==
    LET dlat == lat2 - lat1
        dlon == lon2 - lon1
        a == SinHalfSq(dlat) + MulScaled(Cos(lat1) * Cos(lat1), SinHalfSq(dlon))
        c == 2 * ArcSin(Sqrt(a * 100))
    IN  (R * c) \div 100

\* haversine_distance, the result in metres; on the centres of the model it
\* orders the patches of a site as the floating-point value does
haversine_distance(lat1, lon1, lat2, lon2) ==
    LET dlat == lat2 - lat1
        dlon == lon2 - lon1
        \* a on 10^-8 units
        a == SinHalfSq(dlat) + MulScaled(Cos(lat1) * Cos(lat2), SinHalfSq(dlon))
        \* c on 10^-5 units
        c == 2 * ArcSin(Sqrt(a * 100))
    IN  (R * c) \div 100

(***************************************************************************)
(* Inputs: the rows the two PREDICTS csv files and the metadata parquet    *)
(* file may hold.                                                          *)
(***************************************************************************)
\* the default of max_candidates
DefaultMaxCandidates == 1000

MaxCandidatesVals == {1, DefaultMaxCandidates}
SearchRadiusVals == {MainSearchRadiusDeg}

\* a csv row; Sample_midpoint is the text of a date, held as <<day>>, and a
\* text that is no date as a negative day
CsvRow(num, src, lat, lon, use, day) ==
    [Site_number |-> num, Source_ID |-> src, Latitude |-> lat, Longitude |-> lon,
     Predominant_land_use |-> use, Sample_midpoint |-> day,
     Country |-> "NO", Use_intensity |-> "Light use"]

\* rows of the 2016 file: an agricultural site and a site of another land use
Rows2016 ==
    { CsvRow(1, "S1", Some(80), Some(179), "Cropland", Some(12)),
      CsvRow(3, "S1", Some(80), Some(179), "Urban", Some(12)) }

\* rows of the 2022 file: an agricultural site two degrees north, a day later
Rows2022 ==
    { CsvRow(2, "S2", Some(82), Some(179), "Pasture", Some(13)) }

\* rows for load_predicts_sites alone: the three agricultural land uses,
\* another land use, a missing latitude, a missing longitude, a missing
\* Sample_midpoint and a Sample_midpoint that is no date
LoadRows ==
    { CsvRow(1, "S1", Some(80), Some(179), "Cropland", Some(12)),
      CsvRow(2, "S2", Some(82), Some(179), "Pasture", Some(13)),
      CsvRow(3, "S1", Some(80), Some(179), "Urban", Some(12)),
      CsvRow(4, "S1", Some(80), Some(179), "Plantation forest", Some(12)),
      CsvRow(5, "S1", None, Some(179), "Cropland", Some(12)),
      CsvRow(6, "S1", Some(80), None, "Cropland", Some(12)),
      CsvRow(7, "S1", Some(80), Some(179), "Cropland", None),
      CsvRow(8, "S1", Some(80), Some(179), "Cropland", Some(-1)) }

\* a metadata row; timestamp is the text YYYYmmddTHHMMSS, held as <<day, hour>>
MetaRow(lat, lon, cloud, ts) ==
    [centre_lat |-> lat, centre_lon |-> lon, cloud_cover |-> cloud, timestamp |-> ts]

\* patch centres: two at the same distance from (80, 179), one two degrees
\* west, one a degree east written as a western longitude, one a degree north
PatchCentres == {<<80, 178>>, <<80, 180>>, <<80, 177>>, <<80, -180>>, <<81, 179>>}

\* (cloud_cover, timestamp): below, at and above the threshold, missing cloud
\* cover, a later acquisition, a timestamp whose hour does not parse
PatchQualities ==
    { <<Some(40), <<10, 12>> >>, <<Some(50), <<10, 12>> >>, <<Some(60), <<10, 12>> >>,
      <<None, <<10, 12>> >>, <<Some(40), <<14, 6>> >>, <<Some(40), <<10, 24>> >> }

MetaRows ==
    { MetaRow(c[1], c[2], Some(40), <<10, 12>>) : c \in PatchCentres }
    \cup { MetaRow(80, 178, q[1], q[2]) : q \in PatchQualities }

\* the parquet file: row i carries its own identity
Parquet(rows) ==
    [i \in 1..Len(rows) |->
        [grid_cell |-> <<rows[i].centre_lat, rows[i].centre_lon>>,
         product_id |-> i,
         timestamp |-> rows[i].timestamp,
         cloud_cover |-> rows[i].cloud_cover,
         centre_lat |-> rows[i].centre_lat,
         centre_lon |-> rows[i].centre_lon,
         parquet_url |-> "core_s2l1c",
         parquet_row |-> i - 1]]

(***************************************************************************)
(* pandas helpers.                                                         *)
(***************************************************************************)
\* pd.to_datetime(text, errors="coerce") of a date: its midnight, or NaT
ToDatetimeDate(text) ==
    IF NotNull(text) /\ text[1] >= 0 THEN Some(text[1] * 24) ELSE None

\* pd.to_datetime(text, format="%Y%m%dT%H%M%S", errors="coerce")
ToDatetimeStamp(text) ==
    IF text[1] >= 0 /\ text[2] \in 0..23 THEN Some(text[1] * 24 + text[2]) ELSE None

\* x < y on a column's values in a sort: a missing value sorts last
ValLess(x, y) == NotNull(x) /\ (IsNull(y) \/ x[1] < y[1])

RECURSIVE RowLess(_, _, _)
\* row a sorts strictly before row b on the columns cols, in that order
RowLess(a, b, cols) ==
    IF cols = <<>> THEN FALSE
    ELSE LET c == Head(cols)
         IN  IF ValLess(a[c], b[c]) THEN TRUE
             ELSE IF ValLess(b[c], a[c]) THEN FALSE
             ELSE RowLess(a, b, Tail(cols))

RECURSIVE InsertRow(_, _, _)
\* x put into the sorted frame after every row that does not sort after it
InsertRow(sorted, x, cols) ==
    IF sorted = <<>> THEN <<x>>
    ELSE IF RowLess(x, Head(sorted), cols) THEN <<x>> \o sorted
    ELSE <<Head(sorted)>> \o InsertRow(Tail(sorted), x, cols)

RECURSIVE sort_values(_, _)
\* DataFrame.sort_values(cols): ascending, rows equal on cols keep their order
sort_values(frame, cols) ==
    IF frame = <<>> THEN <<>>
    ELSE InsertRow(sort_values(SubSeq(frame, 1, Len(frame) - 1), cols),
                   frame[Len(frame)], cols)

\* DataFrame.nsmallest(n, col): the n rows smallest on col, of equal rows the
\* first ones of the frame
nsmallest(frame, n, col) ==
    LET sorted == sort_values(frame, <<col>>)
    IN  SubSeq(sorted, 1, IF n < Len(sorted) THEN n ELSE Len(sorted))

(***************************************************************************)
(* load_predicts_sites                                                     *)
(***************************************************************************)
\* one csv file read, with its source_file column
ReadCsv(rows, name) == [i \in 1..Len(rows) |-> [source_file |-> name] @@ rows[i]]

\* load_predicts_sites without the dropna that follows the parsing of the dates
load_predicts_sitesKeepsUnparsed(f2016, f2022) ==
    LET frames == ReadCsv(f2016, "site-level-summaries.csv")
                  \o ReadCsv(f2022, "site-level-summary.csv")
        ag == SelectSeq(frames, LAMBDA s : s.Predominant_land_use \in AG_LAND_USES)
        present == SelectSeq(ag, LAMBDA s : NotNull(s.Latitude) /\ NotNull(s.Longitude)
                                            /\ NotNull(s.Sample_midpoint))
        parsed == [i \in 1..Len(present) |->
                     [present[i] EXCEPT !.Sample_midpoint = ToDatetimeDate(@)]]
    IN  [i \in 1..Len(parsed) |->
            [site_uid |-> parsed[i].Source_ID \o "::" \o ToString(parsed[i].Site_number)]
            @@ parsed[i]]

\* astype(str) of Site_number is its decimal text
load_predicts_sites(f2016, f2022) ==
    LET frames == ReadCsv(f2016, "site-level-summaries.csv")
                  \o ReadCsv(f2022, "site-level-summary.csv")
        ag == SelectSeq(frames, LAMBDA s : s.Predominant_land_use \in AG_LAND_USES)
        present == SelectSeq(ag, LAMBDA s : NotNull(s.Latitude) /\ NotNull(s.Longitude)
                                            /\ NotNull(s.Sample_midpoint))
        parsed == [i \in 1..Len(present) |->
                     [present[i] EXCEPT !.Sample_midpoint = ToDatetimeDate(@)]]
        dated == SelectSeq(parsed, LAMBDA s : NotNull(s.Sample_midpoint))
    IN  [i \in 1..Len(dated) |->
            [site_uid |-> dated[i].Source_ID \o "::" \o ToString(dated[i].Site_number)]
            @@ dated[i]]

(***************************************************************************)
(* match_nearest_patches: the body of the loop for one site                *)
(***************************************************************************)
\* the metadata as read, with its timestamp_dt column
ReadMetadata(file) ==
    [i \in 1..Len(file) |-> [timestamp_dt |-> ToDatetimeStamp(file[i].timestamp)] @@ file[i]]

\* BoundingBox with the longitude difference taken around the globe
BoundingBoxWrapsLongitude(metadata, site_lat, site_lon, radius) ==
    SelectSeq(metadata, LAMBDA m :
        /\ m.centre_lat >= site_lat - radius
        /\ m.centre_lat <= site_lat + radius
        /\ \/ Abs(m.centre_lon - site_lon) <= radius
           \/ 360 - Abs(m.centre_lon - site_lon) <= radius)

\* candidate patches within the bounding box
BoundingBox(metadata, site_lat, site_lon, radius) ==
    SelectSeq(metadata, LAMBDA m :
        /\ m.centre_lat >= site_lat - radius
        /\ m.centre_lat <= site_lat + radius
        /\ m.centre_lon >= site_lon - radius
        /\ m.centre_lon <= site_lon + radius)

WithDistance(cands, site_lat, site_lon) ==
    [i \in 1..Len(cands) |->
        [distance_km |->
            Some(haversine_distance(site_lat, site_lon,
                                    cands[i].centre_lat, cands[i].centre_lon))]
        @@ cands[i]]

\* CloudFilter with a strict threshold
CloudFilterStrict(cands, maxCloud) ==
    SelectSeq(cands, LAMBDA m : NotNull(m.cloud_cover) /\ m.cloud_cover[1] < maxCloud)

\* CloudFilter that lets a missing cloud cover through
CloudFilterKeepsMissing(cands, maxCloud) ==
    SelectSeq(cands, LAMBDA m : IsNull(m.cloud_cover) \/ m.cloud_cover[1] <= maxCloud)

\* candidates["cloud_cover"] <= max_cloud_cover; a missing value compares false
CloudFilter(cands, maxCloud) ==
    SelectSeq(cands, LAMBDA m : NotNull(m.cloud_cover) /\ m.cloud_cover[1] <= maxCloud)

\* WithLag that takes the whole days before the absolute value: the days of a
\* negative Timedelta are rounded towards the past
WithLagDaysBeforeAbs(cands, midpoint) ==
    [i \in 1..Len(cands) |->
        [lag_days |->
            IF IsNull(cands[i].timestamp_dt) THEN None
            ELSE Some(Abs((cands[i].timestamp_dt[1] - midpoint[1]) \div 24))]
        @@ cands[i]]

\* (timestamp_dt - Sample_midpoint).abs().dt.days
WithLag(cands, midpoint) ==
    [i \in 1..Len(cands) |->
        [lag_days |->
            IF IsNull(cands[i].timestamp_dt) THEN None
            ELSE Some(Abs(cands[i].timestamp_dt[1] - midpoint[1]) \div 24)]
        @@ cands[i]]

\* BestMatch with the temporal lag sorted before the distance
BestMatchLagFirst(accepted, midpoint, maxCand) ==
    LET top == nsmallest(accepted, maxCand, "distance_km")
        lagged == WithLag(top, midpoint)
        ordered == sort_values(lagged, <<"lag_days", "distance_km", "cloud_cover">>)
    IN  ordered[1]

\* the best match of a site that has an acceptable candidate
BestMatch(accepted, midpoint, maxCand) ==
    LET top == nsmallest(accepted, maxCand, "distance_km")
        lagged == WithLag(top, midpoint)
        ordered == sort_values(lagged, <<"distance_km", "lag_days", "cloud_cover">>)
    IN  ordered[1]

\* MetaAfterTurn were candidates a view of meta: the rows of the box that fail
\* the cloud filter leave meta with them
MetaAfterTurnShared(metadata, site_lat, site_lon, radius) ==
    SelectSeq(metadata, LAMBDA m :
        \/ m \notin {BoundingBox(metadata, site_lat, site_lon, radius)[k] :
                        k \in 1..Len(BoundingBox(metadata, site_lat, site_lon, radius))}
        \/ NotNull(m.cloud_cover))

\* meta after the turn of a site: candidates is a copy (.copy() on line 81),
\* so the column added to it and the rows filtered from it leave meta as it was
MetaAfterTurn(metadata, site_lat, site_lon, radius) == metadata

\* the record of a site with no patch nearby
NoPatchRecord(site_row) ==
    [product_id |-> None, eo_timestamp |-> None, lag_days |-> None,
     cloud_cover |-> None, distance_km |-> None, parquet_url |-> None,
     parquet_row |-> None, grid_cell |-> None] @@ site_row

\* NoAcceptableRecord without its grid_cell key
NoAcceptableRecordLacksGridCell(site_row) ==
    [product_id |-> None, eo_timestamp |-> None, lag_days |-> None,
     cloud_cover |-> None, distance_km |-> None, parquet_url |-> None,
     parquet_row |-> None] @@ site_row

\* the record of a site with no patch of acceptable cloud cover
NoAcceptableRecord(site_row) ==
    [product_id |-> None, eo_timestamp |-> None, lag_days |-> None,
     cloud_cover |-> None, distance_km |-> None, parquet_url |-> None,
     parquet_row |-> None, grid_cell |-> None] @@ site_row

\* MatchedRecord that takes the patch's centre for the site's coordinates
MatchedRecordPatchCoordinates(site_row, best) ==
    [product_id |-> Some(best.product_id), eo_timestamp |-> best.timestamp_dt,
     lag_days |-> best.lag_days, cloud_cover |-> best.cloud_cover,
     distance_km |-> best.distance_km, parquet_url |-> Some(best.parquet_url),
     parquet_row |-> Some(best.parquet_row), grid_cell |-> Some(best.grid_cell),
     Latitude |-> Some(best.centre_lat), Longitude |-> Some(best.centre_lon)]
    @@ site_row

\* the record of a site with its best patch
MatchedRecord(site_row, best) ==
    [product_id |-> Some(best.product_id), eo_timestamp |-> best.timestamp_dt,
     lag_days |-> best.lag_days, cloud_cover |-> best.cloud_cover,
     distance_km |-> best.distance_km, parquet_url |-> Some(best.parquet_url),
     parquet_row |-> Some(best.parquet_row), grid_cell |-> Some(best.grid_cell)]
    @@ site_row

\* int(best["lag_days"]) raises ValueError on NaN
IntRaises(best) == IsNull(best.lag_days)

\* AppendRecord that leaves out the record of a site without a patch
AppendRecordSkipsUnmatched(list, record) ==
    IF IsNull(record.product_id) THEN list ELSE Append(list, record)

\* matches.append(record)
AppendRecord(list, record) == Append(list, record)

(***************************************************************************)
(* json.dump(records, default=str): a Timestamp is written as its text,    *)
(* <<day, hour>>, and a missing one as the text of NaT, <<>>.              *)
(***************************************************************************)
StampText(t) == IF IsNull(t) THEN None ELSE Some(<<t[1] \div 24, t[1] % 24>>)

JsonRecord(rec) ==
    [rec EXCEPT !.Sample_midpoint = StampText(@), !.eo_timestamp = StampText(@)]

(***************************************************************************)
(* Python floats: IEEE-754 binary64 with round-to-nearest, ties to even.   *)
(* A float is [m, e], worth m * 2^e: m is a natural number of exactly 53   *)
(* bits held as five limbs of 13 bits, lowest first, and zero is all-zero  *)
(* limbs with e = 0.  The values here lie between 2^-18 and 2^8, so no     *)
(* exponent leaves its range.                                              *)
(***************************************************************************)
\* bits of the significand of a binary64
Precision == 53

\* bits of a limb, and the limbs that hold a significand
LimbBits == 13
Limbs == 5

Pow2(j) == 2 ^ j
Limb(x, i) == IF i \in 1..Len(x) THEN x[i] ELSE 0
Fit(x) == [i \in 1..Limbs |-> Limb(x, i)]

\* bit j of x, from bit 0
BitOf(x, j) == (Limb(x, (j \div LimbBits) + 1) \div Pow2(j % LimbBits)) % 2

BitLength(x) ==
    LET nz == {i \in 1..Len(x) : x[i] # 0}
        h == CHOOSE i \in nz : \A j \in nz : j <= i
    IN  IF nz = {} THEN 0
        ELSE LimbBits * (h - 1)
             + (CHOOSE p \in 1..LimbBits : Pow2(p - 1) <= x[h] /\ x[h] < Pow2(p))

\* x \div 2^t and x * 2^t
ShiftRight(x, t) ==
    LET a == t \div LimbBits
        b == t % LimbBits
    IN  [i \in 1..Len(x) |->
            (Limb(x, i + a) \div Pow2(b))
            + (Limb(x, i + a + 1) % Pow2(b)) * Pow2(LimbBits - b)]

ShiftLeft(x, t) ==
    LET a == t \div LimbBits
        b == t % LimbBits
    IN  [i \in 1..(Len(x) + a + 1) |->
            (Limb(x, i - a) % Pow2(LimbBits - b)) * Pow2(b)
            + (Limb(x, i - a - 1) \div Pow2(LimbBits - b))]

RECURSIVE AddLimbs(_, _, _, _)
AddLimbs(x, y, i, carry) ==
    IF i > Len(x) /\ i > Len(y) THEN <<carry>>
    ELSE LET s == Limb(x, i) + Limb(y, i) + carry
         IN  <<s % Pow2(LimbBits)>> \o AddLimbs(x, y, i + 1, s \div Pow2(LimbBits))

RECURSIVE MulLimbs(_, _, _, _)
\* x * c for a number c of at most 17 bits
MulLimbs(x, c, i, carry) ==
    IF i > Len(x) THEN <<carry % Pow2(LimbBits), carry \div Pow2(LimbBits)>>
    ELSE LET s == x[i] * c + carry
         IN  <<s % Pow2(LimbBits)>> \o MulLimbs(x, c, i + 1, s \div Pow2(LimbBits))

\* the binary64 nearest to x * 2^e, ties to the even significand
RoundToDouble(x, e) ==
    LET len == BitLength(x)
        t == len - Precision
        kept == ShiftRight(x, t)
        sticky == \E j \in 0..(t - 2) : BitOf(x, j) = 1
        up == BitOf(x, t - 1) = 1 /\ (sticky \/ BitOf(kept, 0) = 1)
        m == IF up THEN AddLimbs(kept, <<1>>, 1, 0) ELSE kept
    IN  IF len = 0 THEN [m |-> Fit(<<>>), e |-> 0]
        ELSE IF t <= 0 THEN [m |-> Fit(ShiftLeft(x, 0 - t)), e |-> e + t]
        ELSE IF BitLength(m) > Precision THEN [m |-> Fit(ShiftRight(m, 1)), e |-> e + t + 1]
        ELSE [m |-> Fit(m), e |-> e + t]

\* float(n) of an int below 2^13
FloatOfInt(n) == RoundToDouble(<<n>>, 0)

RECURSIVE DivLimbs(_, _, _, _)
\* long division: `steps` more limbs of r / n below the limbs of acc, n < 2^17
DivLimbs(r, n, steps, acc) ==
    IF steps = 0 THEN <<acc, r>>
    ELSE DivLimbs((r * Pow2(LimbBits)) % n, n, steps - 1,
                  <<(r * Pow2(LimbBits)) \div n>> \o acc)

\* k / n of two ints, 0 <= k < 2^13 and 0 < n < 2^17: the quotient to six limbs
\* behind the point, the lowest bit set when anything is left, then rounded
FloatDiv(k, n) ==
    LET q == DivLimbs(k % n, n, Limbs + 1, <<k \div n>>)
        rest == IF q[2] # 0 /\ q[1][1] % 2 = 0 THEN 1 ELSE 0
    IN  RoundToDouble([q[1] EXCEPT ![1] = @ + rest], 0 - LimbBits * (Limbs + 1))

\* f * c for an int c below 2^13, which float(c) holds exactly
FloatMulInt(f, c) == RoundToDouble(MulLimbs(f.m, c, 1, 0), f.e)

FloatAdd(f, g) ==
    LET e == IF f.e <= g.e THEN f.e ELSE g.e
    IN  RoundToDouble(AddLimbs(ShiftLeft(f.m, f.e - e), ShiftLeft(g.m, g.e - e), 1, 0), e)

\* f and g are the same float or neighbouring floats of one exponent
WithinOneUlp(f, g) ==
    /\ f.e = g.e
    /\ \/ f.m = g.m
       \/ Fit(AddLimbs(f.m, <<1>>, 1, 0)) = g.m
       \/ Fit(AddLimbs(g.m, <<1>>, 1, 0)) = f.m

(***************************************************************************)
(* State.                                                                  *)
(***************************************************************************)
VARIABLES
    csv2016,            \* rows of data/predicts_2016/site-level-summaries.csv
    csv2022,            \* rows of data/predicts_2022/site-level-summary.csv
    parquet,            \* rows of data/major_tom/core_s2l1c_metadata.parquet
    search_radius_deg,  \* arguments of match_nearest_patches
    max_candidates,
    max_cloud_cover,
    pc,                 \* where main is
    sites,              \* the frame load_predicts_sites returned
    meta,               \* the metadata frame of match_nearest_patches
    idx,                \* the site the loop is at, from 1
    matches,            \* the list of records / the returned frame
    matched,            \* main's counts
    unmatched,
    output,             \* content of predicts_s2_matches_fixed.json, if written
    writes,             \* times the output file was opened for writing
    hav,                \* a call of haversine_distance and what it returned
    viz,                \* what load_data of a figure script returned
    figure,             \* temporal_coverage.create_figure: its frame, its numbers
    fsys                \* the files and directories the scripts share

vars == <<csv2016, csv2022, parquet, search_radius_deg, max_candidates,
          max_cloud_cover, pc, sites, meta, idx, matches, matched, unmatched,
          output, writes, hav, viz, figure, fsys>>

inputs == <<csv2016, csv2022, parquet, search_radius_deg, max_candidates,
            max_cloud_cover>>

\* what main of the matching script never touches
aside == <<hav, viz, figure, fsys>>

NoCall == [args |-> <<>>, out |-> None]
NoFrame == [script |-> "", status |-> "", matches_df |-> <<>>]
NoFigure ==
    [matches_df |-> <<>>, status |-> "", overlap_sites |-> 0, gap_sites |-> 0,
     overlap_pct |-> FloatOfInt(0), gap_pct |-> FloatOfInt(0)]
NoFiles == [stage |-> "", dirs |-> {}, files |-> {}, dest |-> <<>>, ret |-> None,
            read |-> {}]

Idle ==
    /\ hav = NoCall
    /\ viz = NoFrame
    /\ figure = NoFigure
    /\ fsys = NoFiles

Init ==
    /\ csv2016 \in SeqUpTo(Rows2016, MaxRows)
    /\ csv2022 \in SeqUpTo(Rows2022, MaxRows)
    /\ parquet \in {Parquet(rows) : rows \in SeqUpTo(MetaRows, MaxPatches)}
    /\ search_radius_deg \in SearchRadiusVals
    /\ max_candidates \in MaxCandidatesVals
    /\ max_cloud_cover = MainMaxCloudCover
    /\ pc = "load"
    /\ sites = <<>>
    /\ meta = <<>>
    /\ idx = 1
    /\ matches = <<>>
    /\ matched = 0
    /\ unmatched = 0
    /\ output = None
    /\ writes = 0
    /\ Idle

(***************************************************************************)
(* main                                                                    *)
(***************************************************************************)
\* sites = load_predicts_sites([predicts_2016, predicts_2022])
LoadSites ==
    /\ pc = "load"
    /\ sites' = load_predicts_sites(csv2016, csv2022)
    /\ pc' = "read_metadata"
    /\ UNCHANGED <<inputs, aside, meta, idx, matches, matched, unmatched, output, writes>>

\* pd.read_csv raises: a file is absent or lacks a column
LoadRaises ==
    /\ pc = "load"
    /\ pc' = "raised"
    /\ UNCHANGED <<inputs, aside, sites, meta, idx, matches, matched, unmatched, output, writes>>

\* match_nearest_patches up to its loop
ReadMeta ==
    /\ pc = "read_metadata"
    /\ meta' = ReadMetadata(parquet)
    /\ matches' = <<>>
    /\ idx' = 1
    /\ pc' = "match"
    /\ UNCHANGED <<inputs, aside, sites, matched, unmatched, output, writes>>

\* one turn of the loop over sites.iterrows()
MatchSite ==
    /\ pc = "match"
    /\ idx <= Len(sites)
    /\ LET site_row == sites[idx]
           site_lat == site_row.Latitude[1]
           site_lon == site_row.Longitude[1]
           candidates == BoundingBox(meta, site_lat, site_lon, search_radius_deg)
           accepted == CloudFilter(WithDistance(candidates, site_lat, site_lon),
                                   max_cloud_cover)
           best == BestMatch(accepted, site_row.Sample_midpoint, max_candidates)
       IN  IF Len(candidates) = 0
           THEN /\ matches' = AppendRecord(matches, NoPatchRecord(site_row))
                /\ idx' = idx + 1
                /\ pc' = pc
           ELSE IF Len(accepted) = 0
           THEN /\ matches' = AppendRecord(matches, NoAcceptableRecord(site_row))
                /\ idx' = idx + 1
                /\ pc' = pc
           ELSE IF IntRaises(best)
           THEN /\ pc' = "raised"
                /\ UNCHANGED <<matches, idx>>
           ELSE /\ matches' = AppendRecord(matches, MatchedRecord(site_row, best))
                /\ idx' = idx + 1
                /\ pc' = pc
    /\ meta' = MetaAfterTurn(meta, sites[idx].Latitude[1], sites[idx].Longitude[1],
                             search_radius_deg)
    /\ UNCHANGED <<inputs, aside, sites, matched, unmatched, output, writes>>

\* return pd.DataFrame(matches)
MatchReturn ==
    /\ pc = "match"
    /\ idx > Len(sites)
    /\ pc' = "stats"
    /\ UNCHANGED <<inputs, aside, sites, meta, idx, matches, matched, unmatched, output, writes>>

\* the counts; matches["product_id"] raises KeyError on a frame of no rows,
\* which has no columns
Stats ==
    /\ pc = "stats"
    /\ IF Len(matches) = 0
       THEN /\ pc' = "raised"
            /\ UNCHANGED <<matched, unmatched>>
       ELSE /\ matched' = Cardinality({i \in 1..Len(matches) : NotNull(matches[i].product_id)})
            /\ unmatched' = Cardinality({i \in 1..Len(matches) : IsNull(matches[i].product_id)})
            /\ pc' = "save"
    /\ UNCHANGED <<inputs, aside, sites, meta, idx, matches, output, writes>>

\* Save that writes the records of the matched sites only
SaveMatchedOnly ==
    /\ pc = "save"
    /\ output' = Some([i \in 1..Len(SelectSeq(matches, LAMBDA m : NotNull(m.product_id))) |->
                          JsonRecord(SelectSeq(matches, LAMBDA m : NotNull(m.product_id))[i])])
    /\ writes' = writes + 1
    /\ pc' = "done"
    /\ UNCHANGED <<inputs, aside, sites, meta, idx, matches, matched, unmatched>>

\* records written to the output file
Save ==
    /\ pc = "save"
    /\ output' = Some([i \in 1..Len(matches) |-> JsonRecord(matches[i])])
    /\ writes' = writes + 1
    /\ pc' = "done"
    /\ UNCHANGED <<inputs, aside, sites, meta, idx, matches, matched, unmatched>>

Next ==
    \/ LoadSites
    \/ LoadRaises
    \/ ReadMeta
    \/ MatchSite
    \/ MatchReturn
    \/ Stats
    \/ Save

Spec == Init /\ [][Next]_vars

(***************************************************************************)
(* The figure scripts: load_data of each reads the file the match step     *)
(* wrote.                                                                  *)
(***************************************************************************)
VizScripts ==
    {"temporal_lag_histogram", "landuse_comparison", "spatial_distribution",
     "temporal_coverage"}

\* pd.to_datetime of the text json.dump wrote for a Timestamp
ParseStampText(text) == IF IsNull(text) THEN None ELSE Some(text[1][1] * 24 + text[1][2])

\* .dt.year, counted from the year the days of the model start in
YearOf(t) == IF IsNull(t) THEN None ELSE Some(t[1] \div (24 * 366))

\* x / 365.25, as the fraction <<numerator, denominator>>
Over365_25(x) == IF IsNull(x) THEN None ELSE Some(<<x[1] * 100, 36525>>)

\* the filter left out: every record of the file is kept
KeepAllRecords(records) == records

\* matches_df[matches_df["product_id"].notna()]
DropUnmatched(records) == SelectSeq(records, LAMBDA m : NotNull(m.product_id))

\* the frame load_data of a script returns for the records of the file
VizFrame(script, records) ==
    LET kept == DropUnmatched(records)
        mid(i) == ParseStampText(kept[i].Sample_midpoint)
        eo(i) == ParseStampText(kept[i].eo_timestamp)
    IN  [i \in 1..Len(kept) |->
            CASE script = "temporal_lag_histogram" ->
                    [lag_years |-> Over365_25(kept[i].lag_days)]
                    @@ [kept[i] EXCEPT !.Sample_midpoint = mid(i), !.eo_timestamp = eo(i)]
              [] script = "landuse_comparison" ->
                    [temporal_lag_years |-> Over365_25(Some(Abs((eo(i)[1] - mid(i)[1]) \div 24)))]
                    @@ [kept[i] EXCEPT !.Sample_midpoint = mid(i), !.eo_timestamp = eo(i)]
              [] script = "spatial_distribution" ->
                    [year |-> YearOf(mid(i))]
                    @@ [kept[i] EXCEPT !.Sample_midpoint = mid(i)]
              [] script = "temporal_coverage" ->
                    [predicts_year |-> YearOf(mid(i)), major_tom_year |-> YearOf(eo(i))]
                    @@ [kept[i] EXCEPT !.Sample_midpoint = mid(i), !.eo_timestamp = eo(i)]]

\* load_data of a figure script, run once the match step has written its file;
\* temporal_coverage parses the metadata timestamps without errors="coerce"
\* and raises on one that does not parse
VizLoadData(script) ==
    /\ pc = "done"
    /\ viz' = IF script = "temporal_coverage"
                 /\ \E k \in 1..Len(parquet) : IsNull(ToDatetimeStamp(parquet[k].timestamp))
              THEN [script |-> script, status |-> "raised", matches_df |-> <<>>]
              ELSE [script |-> script, status |-> "loaded",
                    matches_df |-> VizFrame(script, output[1])]
    /\ UNCHANGED <<inputs, pc, sites, meta, idx, matches, matched, unmatched, output,
                   writes, hav, figure, fsys>>

InitViz ==
    /\ Init
    /\ max_candidates = DefaultMaxCandidates

NextViz ==
    \/ Next
    \/ \E script \in VizScripts : VizLoadData(script)

SpecViz == InitViz /\ [][NextViz]_vars

(***************************************************************************)
(* temporal_coverage.create_figure: the overlap numbers it prints, for     *)
(* frames of matched sites with their two year columns.                    *)
(***************************************************************************)
\* the years of the overlap window, and the factor of a percentage
OverlapFirstYear == 2016
OverlapLastYear == 2018
Percent == 100

\* the window with its last year left out
OverlapRowsBeforeLastYear(df) ==
    SelectSeq(df, LAMBDA m : /\ m.predicts_year >= OverlapFirstYear
                              /\ m.predicts_year < OverlapLastYear
                              /\ m.major_tom_year >= OverlapFirstYear
                              /\ m.major_tom_year < OverlapLastYear)

\* the rows whose two years both lie in the window
OverlapRows(df) ==
    SelectSeq(df, LAMBDA m : /\ m.predicts_year >= OverlapFirstYear
                              /\ m.predicts_year <= OverlapLastYear
                              /\ m.major_tom_year >= OverlapFirstYear
                              /\ m.major_tom_year <= OverlapLastYear)

\* (predicts_year, major_tom_year) of a matched site: both at an end of the
\* window, and each just outside it on either side
YearPairs ==
    { [predicts_year |-> p[1], major_tom_year |-> p[2]] :
        p \in { <<2016, 2016>>, <<2018, 2018>>, <<2015, 2016>>, <<2019, 2018>>,
                <<2016, 2015>>, <<2018, 2019>> } }

\* create_figure up to its percentages; a frame of no rows divides by zero
CreateFigure ==
    /\ figure.status = ""
    /\ LET n == Len(figure.matches_df)
           overlap == Len(OverlapRows(figure.matches_df))
       IN  figure' =
             IF n = 0 THEN [figure EXCEPT !.status = "raised"]
             ELSE [figure EXCEPT
                     !.status = "drawn",
                     !.overlap_sites = overlap,
                     !.gap_sites = n - overlap,
                     !.overlap_pct = FloatMulInt(FloatDiv(overlap, n), Percent),
                     !.gap_pct = FloatMulInt(FloatDiv(n - overlap, n), Percent)]
    /\ UNCHANGED <<inputs, pc, sites, meta, idx, matches, matched, unmatched, output,
                   writes, hav, viz, fsys>>

InitCoverage ==
    /\ csv2016 = <<>>
    /\ csv2022 = <<>>
    /\ parquet = <<>>
    /\ search_radius_deg = MainSearchRadiusDeg
    /\ max_candidates = DefaultMaxCandidates
    /\ max_cloud_cover = MainMaxCloudCover
    /\ pc = "done"
    /\ sites = <<>>
    /\ meta = <<>>
    /\ idx = 1
    /\ matches = <<>>
    /\ matched = 0
    /\ unmatched = 0
    /\ output = None
    /\ writes = 0
    /\ hav = NoCall
    /\ viz = NoFrame
    /\ fsys = NoFiles
    /\ figure \in {[NoFigure EXCEPT !.matches_df = df] :
                      df \in SeqUpTo(YearPairs, MaxFigureSites)}

NextCoverage == CreateFigure

SpecCoverage == InitCoverage /\ [][NextCoverage]_vars

(***************************************************************************)
(* haversine_distance on its own: one pair of points, measured both ways.  *)
(***************************************************************************)
\* the latitudes and longitudes of the sites and patches of the model, and
\* the longitudes that face them across the antimeridian
HavLatitudes == {79, 80, 81, 82}
HavLongitudes == {177, 178, 179, 180, -180, -179}

HaversineCall ==
    /\ hav.out = None
    /\ LET lat1 == hav.args[1]
           lon1 == hav.args[2]
           lat2 == hav.args[3]
           lon2 == hav.args[4]
       IN  hav' = [hav EXCEPT !.out =
                     Some([there |-> haversine_distance(lat1, lon1, lat2, lon2),
                           back |-> haversine_distance(lat2, lon2, lat1, lon1),
                           same |-> haversine_distance(lat1, lon1, lat1, lon1)])]
    /\ UNCHANGED <<inputs, pc, sites, meta, idx, matches, matched, unmatched, output,
                   writes, viz, figure, fsys>>

InitHaversine ==
    /\ csv2016 = <<>>
    /\ csv2022 = <<>>
    /\ parquet = <<>>
    /\ search_radius_deg = MainSearchRadiusDeg
    /\ max_candidates = DefaultMaxCandidates
    /\ max_cloud_cover = MainMaxCloudCover
    /\ pc = "match"
    /\ sites = <<>>
    /\ meta = <<>>
    /\ idx = 1
    /\ matches = <<>>
    /\ matched = 0
    /\ unmatched = 0
    /\ output = None
    /\ writes = 0
    /\ viz = NoFrame
    /\ figure = NoFigure
    /\ fsys = NoFiles
    /\ hav \in {[args |-> <<lat1, lon1, lat2, lon2>>, out |-> None] :
                   lat1 \in HavLatitudes, lon1 \in HavLongitudes,
                   lat2 \in HavLatitudes, lon2 \in HavLongitudes}

NextHaversine == HaversineCall

SpecHaversine == InitHaversine /\ [][NextHaversine]_vars

(***************************************************************************)
(* match_nearest_patches on its own, on tables of sites in any order and   *)
(* with repeated rows.                                                     *)
(***************************************************************************)
\* the rows load_predicts_sites returns for the agricultural rows of the files
LoadedSites ==
    {load_predicts_sites(<<r>>, <<>>)[1] :
        r \in {q \in Rows2016 : q.Predominant_land_use \in AG_LAND_USES}}
    \cup {load_predicts_sites(<<>>, <<r>>)[1] : r \in Rows2022}

InitMatch ==
    /\ csv2016 = <<>>
    /\ csv2022 = <<>>
    /\ parquet \in {Parquet(rows) : rows \in SeqUpTo(MetaRows, MaxPatches)}
    /\ search_radius_deg \in SearchRadiusVals
    /\ max_candidates \in MaxCandidatesVals
    /\ max_cloud_cover = MainMaxCloudCover
    /\ pc = "read_metadata"
    /\ sites \in SeqUpTo(LoadedSites, MaxSites)
    /\ meta = <<>>
    /\ idx = 1
    /\ matches = <<>>
    /\ matched = 0
    /\ unmatched = 0
    /\ output = None
    /\ writes = 0
    /\ Idle

NextMatch ==
    \/ ReadMeta
    \/ MatchSite
    \/ MatchReturn

SpecMatch == InitMatch /\ [][NextMatch]_vars

(***************************************************************************)
(* The stages as processes that share files: the download script, main of  *)
(* the match step and load_data of each figure script.  A path is the      *)
(* sequence of its components; a file on disk is [path, by], by naming     *)
(* the stage that wrote it ("other" for a file found there).               *)
(***************************************************************************)
\* default of --s2l1c in the download script
DefaultDestPath == <<"data", "major_tom", "core_s2l1c_metadata.parquet">>
\* metadata and output in main of the match step
MatchMetadataPath == <<"data", "major_tom", "core_s2l1c_metadata.parquet">>
MatchOutputPath == <<"data", "major_tom", "predicts_s2_matches_fixed.json">>
\* pd.read_parquet in load_data of temporal_coverage
CoverageMetadataPath == <<"data", "major_tom", "core_s2l1c_metadata.parquet">>

\* VizInputPath with the name the matches file had before the fixed matcher
VizInputPathUnfixed(script) == <<"data", "major_tom", "predicts_s2_matches.json">>

\* open(...) in load_data of each figure script
VizInputPath(script) ==
    CASE script = "temporal_lag_histogram" ->
            <<"data", "major_tom", "predicts_s2_matches_fixed.json">>
      [] script = "landuse_comparison" ->
            <<"data", "major_tom", "predicts_s2_matches_fixed.json">>
      [] script = "spatial_distribution" ->
            <<"data", "major_tom", "predicts_s2_matches_fixed.json">>
      [] script = "temporal_coverage" ->
            <<"data", "major_tom", "predicts_s2_matches_fixed.json">>

\* dest.parent, and a path with all its ancestors
Parent(path) == SubSeq(path, 1, Len(path) - 1)
Ancestors(path) == {SubSeq(path, 1, k) : k \in 1..Len(path)}

PathsOf(fileset) == {f.path : f \in fileset}

\* a file written: it replaces the file of that path
Written(fileset, path, stage) ==
    {f \in fileset : f.path # path} \cup {[path |-> path, by |-> stage]}

\* mkdir(parents=True, exist_ok=True) raises when a file stands in the way
MkdirRaises(disk, dir) == Ancestors(dir) \cap PathsOf(disk.files) # {}

\* destinations given to download: the default, a path of the user in another
\* directory, and one in the working directory
DestPaths == {DefaultDestPath, <<"scratch", "metadata.parquet">>, <<"metadata.parquet">>}

\* the working directory, and it with data/major_tom/ in it
NoDirs == {<<>>}
DataDirs == {<<>>, <<"data">>, <<"data", "major_tom">>}

OldFile(path) == [path |-> path, by |-> "other"]

\* the disk before the download: empty, with data/, with data/major_tom/,
\* with a file named data, and with older files in data/major_tom/: the
\* metadata, a matches file, a matches file of the earlier name
InitialDisks ==
    { [dirs |-> NoDirs, files |-> {}],
      [dirs |-> {<<>>, <<"data">>}, files |-> {}],
      [dirs |-> DataDirs, files |-> {}],
      [dirs |-> NoDirs, files |-> {OldFile(<<"data">>)}],
      [dirs |-> DataDirs, files |-> {OldFile(DefaultDestPath)}],
      [dirs |-> DataDirs, files |-> {OldFile(VizInputPathUnfixed(""))}],
      [dirs |-> DataDirs, files |-> {OldFile(DefaultDestPath), OldFile(MatchOutputPath)}],
      [dirs |-> DataDirs,
       files |-> {OldFile(DefaultDestPath), OldFile(VizInputPathUnfixed(""))}] }

\* download: dest.parent.mkdir(parents=True, exist_ok=True)
DownloadMkdir ==
    /\ fsys.stage = "download"
    /\ fsys' = IF MkdirRaises(fsys, Parent(fsys.dest))
               THEN [fsys EXCEPT !.stage = "raised"]
               ELSE [fsys EXCEPT !.stage = "retrieve",
                                 !.dirs = @ \cup Ancestors(Parent(fsys.dest))]
    /\ UNCHANGED <<inputs, pc, sites, meta, idx, matches, matched, unmatched, output,
                   writes, hav, viz, figure>>

\* download: urllib.request.urlretrieve(url, dest); return dest
DownloadRetrieve ==
    /\ fsys.stage = "retrieve"
    /\ fsys' = [fsys EXCEPT !.stage = "downloaded",
                            !.files = Written(@, fsys.dest, "download"),
                            !.ret = Some(fsys.dest)]
    /\ UNCHANGED <<inputs, pc, sites, meta, idx, matches, matched, unmatched, output,
                   writes, hav, viz, figure>>

\* download: urlretrieve raises, nothing is written or returned
DownloadFails ==
    /\ fsys.stage = "retrieve"
    /\ fsys' = [fsys EXCEPT !.stage = "raised"]
    /\ UNCHANGED <<inputs, pc, sites, meta, idx, matches, matched, unmatched, output,
                   writes, hav, viz, figure>>

\* main of the match step as file accesses: it reads the metadata file, and
\* unless it raises it makes the directory of its output and writes it
MatchRun ==
    /\ fsys.stage = "downloaded"
    /\ \/ /\ MatchMetadataPath \in PathsOf(fsys.files)
          /\ ~MkdirRaises(fsys, Parent(MatchOutputPath))
          /\ fsys' = [fsys EXCEPT
                        !.stage = "matched",
                        !.read = @ \cup {[script |-> "match", file |-> f] :
                                           f \in {g \in fsys.files : g.path = MatchMetadataPath}},
                        !.dirs = @ \cup Ancestors(Parent(MatchOutputPath)),
                        !.files = Written(@, MatchOutputPath, "match")]
       \/ fsys' = [fsys EXCEPT !.stage = "raised"]
    /\ UNCHANGED <<inputs, pc, sites, meta, idx, matches, matched, unmatched, output,
                   writes, hav, viz, figure>>

\* the files load_data of a figure script opens
VizReads(script) ==
    IF script = "temporal_coverage"
    THEN {CoverageMetadataPath, VizInputPath(script)}
    ELSE {VizInputPath(script)}

\* load_data of a figure script as file accesses; a missing file raises
VizRun(script) ==
    /\ fsys.stage = "matched"
    /\ fsys' = IF VizReads(script) \subseteq PathsOf(fsys.files)
               THEN [fsys EXCEPT !.read = @ \cup {[script |-> script, file |-> f] :
                                    f \in {g \in fsys.files : g.path \in VizReads(script)}}]
               ELSE [fsys EXCEPT !.stage = "raised"]
    /\ UNCHANGED <<inputs, pc, sites, meta, idx, matches, matched, unmatched, output,
                   writes, hav, viz, figure>>

InitPipeline ==
    /\ csv2016 = <<>>
    /\ csv2022 = <<>>
    /\ parquet = <<>>
    /\ search_radius_deg = MainSearchRadiusDeg
    /\ max_candidates = DefaultMaxCandidates
    /\ max_cloud_cover = MainMaxCloudCover
    /\ pc = "load"
    /\ sites = <<>>
    /\ meta = <<>>
    /\ idx = 1
    /\ matches = <<>>
    /\ matched = 0
    /\ unmatched = 0
    /\ output = None
    /\ writes = 0
    /\ hav = NoCall
    /\ viz = NoFrame
    /\ figure = NoFigure
    /\ fsys \in {[stage |-> "download", dirs |-> d.dirs, files |-> d.files,
                   dest |-> p, ret |-> None, read |-> {}] :
                      d \in InitialDisks, p \in DestPaths}

NextPipeline ==
    \/ DownloadMkdir
    \/ DownloadRetrieve
    \/ DownloadFails
    \/ MatchRun
    \/ \E script \in VizScripts : VizRun(script)

SpecPipeline == InitPipeline /\ [][NextPipeline]_vars

(***************************************************************************)
(* load_predicts_sites on its own, on files of every kind of row.          *)
(***************************************************************************)
InitLoad ==
    /\ csv2016 \in SeqUpTo(LoadRows, MaxRows)
    /\ csv2022 \in SeqUpTo(LoadRows, MaxRows)
    /\ parquet = <<>>
    /\ search_radius_deg = MainSearchRadiusDeg
    /\ max_candidates = DefaultMaxCandidates
    /\ max_cloud_cover = MainMaxCloudCover
    /\ pc = "load"
    /\ sites = <<>>
    /\ meta = <<>>
    /\ idx = 1
    /\ matches = <<>>
    /\ matched = 0
    /\ unmatched = 0
    /\ output = None
    /\ writes = 0
    /\ Idle

NextLoad ==
    \/ LoadSites
    \/ LoadRaises

SpecLoad == InitLoad /\ [][NextLoad]_vars

(***************************************************************************)
(* What the claims speak of, stated on the inputs of the loop: record i    *)
(* of matches is the record of site i, and parquet_row + 1 is the place    *)
(* of a record's patch in the metadata.                                    *)
(***************************************************************************)
SiteFields ==
    {"Site_number", "Source_ID", "Latitude", "Longitude", "Predominant_land_use",
     "Sample_midpoint", "Country", "Use_intensity", "source_file", "site_uid"}

MatchFields ==
    {"product_id", "eo_timestamp", "lag_days", "cloud_cover", "distance_km",
     "parquet_url", "parquet_row", "grid_cell"}

Records == 1..Len(matches)

IsMatched(rec) == NotNull(rec.product_id)

SiteLat(i) == sites[i].Latitude[1]
SiteLon(i) == sites[i].Longitude[1]

\* patches inside the bounding box of site i, on raw degrees
InBoxOf(i) ==
    {k \in 1..Len(meta) :
        /\ Abs(meta[k].centre_lat - SiteLat(i)) <= search_radius_deg
        /\ Abs(meta[k].centre_lon - SiteLon(i)) <= search_radius_deg}

\* patches that pass the cloud filter
CloudOk ==
    {k \in 1..Len(meta) :
        NotNull(meta[k].cloud_cover) /\ meta[k].cloud_cover[1] <= max_cloud_cover}

AcceptableInBox(i) == InBoxOf(i) \cap CloudOk

\* great-circle distance of patch k to site i
DistanceTo(i, k) ==
    haversine_distance(SiteLat(i), SiteLon(i), meta[k].centre_lat, meta[k].centre_lon)

\* whole days between patch k and the sample of site i, missing without a timestamp
LagTo(i, k) ==
    IF IsNull(meta[k].timestamp_dt) THEN None
    ELSE Some(Abs(meta[k].timestamp_dt[1] - sites[i].Sample_midpoint[1]) \div 24)

\* the (distance, lag, cloud cover) key of patch k for site i, and of a record
KeyOf(i, k) == <<DistanceTo(i, k), LagTo(i, k), meta[k].cloud_cover[1]>>
KeyOfRecord(rec) == <<rec.distance_km[1], rec.lag_days, rec.cloud_cover[1]>>

\* strictly smaller in the lexicographic order; a missing lag is the largest
KeyLess(a, b) ==
    \/ a[1] < b[1]
    \/ a[1] = b[1] /\ ValLess(a[2], b[2])
    \/ a[1] = b[1] /\ a[2] = b[2] /\ a[3] < b[3]

\* the patch of a matched record
PatchOf(rec) == meta[rec.parquet_row[1] + 1]

\* the loop has returned
Returned == pc \in {"stats", "save", "done"}

(***************************************************************************)
(* C1: the patch written for a matched site is a minimum of the            *)
(* lexicographic order (distance_km, lag_days, cloud_cover) over all the   *)
(* patches of its bounding box that pass the cloud filter, whatever        *)
(* max_candidates >= 1 is.                                                 *)
(***************************************************************************)
C1_LexicographicMinimum ==
    \A i \in Records :
        IsMatched(matches[i]) =>
            \A k \in AcceptableInBox(i) :
                ~KeyLess(KeyOf(i, k), KeyOfRecord(matches[i]))

(***************************************************************************)
(* C2: for every matched site no patch of the whole metadata table that    *)
(* passes the cloud filter is strictly closer to the site, by great-circle *)
(* distance, than the selected patch.                                      *)
(***************************************************************************)
C2_GloballyNearest ==
    \A i \in Records :
        IsMatched(matches[i]) =>
            \A k \in CloudOk : DistanceTo(i, k) >= matches[i].distance_km[1]

(***************************************************************************)
(* C3: one record per input site, in the order of the sites: while the     *)
(* loop runs the records are those of the sites before idx, and what is    *)
(* returned has as many records as there are sites, record i being that    *)
(* of site i.                                                              *)
(***************************************************************************)
C3_OneRecordPerSite ==
    /\ pc = "match" => Len(matches) = idx - 1
    /\ Returned => Len(matches) = Len(sites)
    /\ pc \in {"match", "stats", "save", "done"} =>
          \A i \in Records :
              /\ i <= Len(sites)
              /\ matches[i].site_uid = sites[i].site_uid

\* two sites were processed, the first matched and the second not
C3_Witness ==
    /\ Returned
    /\ Len(sites) = 2
    /\ Len(matches) = 2
    /\ sites[1].site_uid # sites[2].site_uid
    /\ IsMatched(matches[1])
    /\ ~IsMatched(matches[2])

(***************************************************************************)
(* C4: a site's record carries a patch (all eight match fields) exactly    *)
(* when a patch of its bounding box passes the cloud filter.               *)
(***************************************************************************)
C4_MatchedIffAcceptable ==
    \A i \in Records :
        /\ IsMatched(matches[i]) <=> AcceptableInBox(i) # {}
        /\ IsMatched(matches[i]) => \A f \in MatchFields : NotNull(matches[i][f])

\* a matched site whose nearest patch in the box fails the cloud filter
C4_Witness ==
    \E i \in Records :
        /\ IsMatched(matches[i])
        /\ \E k \in InBoxOf(i) \ CloudOk :
              DistanceTo(i, k) < matches[i].distance_km[1]

(***************************************************************************)
(* C5: the cloud cover of every matched record is present and at most      *)
(* max_cloud_cover, and so is that of its patch.                           *)
(***************************************************************************)
C5_CloudThreshold ==
    \A i \in Records :
        IsMatched(matches[i]) =>
            /\ NotNull(matches[i].cloud_cover)
            /\ matches[i].cloud_cover[1] <= max_cloud_cover
            /\ matches[i].cloud_cover = PatchOf(matches[i]).cloud_cover

\* a record whose cloud cover is the threshold itself, chosen although the
\* table holds a patch above the threshold or without cloud cover
C5_Witness ==
    \E i \in Records :
        /\ IsMatched(matches[i])
        /\ matches[i].cloud_cover[1] = max_cloud_cover
        /\ InBoxOf(i) \ CloudOk # {}

(***************************************************************************)
(* C6: the patch of every matched record lies in the site's bounding box:  *)
(* its raw latitude and longitude differ from the site's by at most        *)
(* search_radius_deg.                                                      *)
(***************************************************************************)
C6_InsideBoundingBox ==
    \A i \in Records :
        IsMatched(matches[i]) =>
            LET patch == PatchOf(matches[i])
            IN  /\ Abs(patch.centre_lat - SiteLat(i)) <= search_radius_deg
                /\ Abs(patch.centre_lon - SiteLon(i)) <= search_radius_deg

\* a matched record on the edge of the box, while a patch across the 180
\* degree meridian is closer
C6_Witness ==
    \E i \in Records :
        /\ IsMatched(matches[i])
        /\ Abs(PatchOf(matches[i]).centre_lat - SiteLat(i)) = search_radius_deg
        /\ \E k \in CloudOk :
              /\ Abs(meta[k].centre_lon - SiteLon(i)) > 180
              /\ DistanceTo(i, k) < matches[i].distance_km[1]

C8_DistanceDominates ==
    \A i \in Records :
        IsMatched(matches[i]) =>
            /\ \E k \in AcceptableInBox(i) : DistanceTo(i, k) = matches[i].distance_km[1]
            /\ \A k \in AcceptableInBox(i) : DistanceTo(i, k) >= matches[i].distance_km[1]

\* a matched site with a farther acceptable patch of smaller temporal lag,
\* all candidates kept
C8_Witness ==
    \E i \in Records :
        /\ IsMatched(matches[i])
        /\ max_candidates > Len(meta)
        /\ \E k \in AcceptableInBox(i) :
              /\ DistanceTo(i, k) > matches[i].distance_km[1]
              /\ ValLess(LagTo(i, k), matches[i].lag_days)

(***************************************************************************)
(* C9: a turn of the loop for a site without a patch of acceptable cloud   *)
(* cover in its bounding box (the box empty or not) appends a record of    *)
(* the site's fields and the eight match fields, all eight missing, and    *)
(* goes on to the next site.                                               *)
(***************************************************************************)
C9_UnmatchedRecord ==
    [][ (pc = "match" /\ idx <= Len(sites) /\ AcceptableInBox(idx) = {}) =>
            /\ pc' = "match"
            /\ idx' = idx + 1
            /\ Len(matches') = Len(matches) + 1
            /\ SubSeq(matches', 1, Len(matches)) = matches
            /\ LET rec == matches'[Len(matches')]
               IN  /\ DOMAIN rec = SiteFields \cup MatchFields
                   /\ \A f \in MatchFields : IsNull(rec[f])
                   /\ rec.site_uid = sites[idx].site_uid ]_vars

\* one site was left unmatched with an empty box, another with patches in
\* its box, none of acceptable cloud cover
C9_Witness ==
    \E i, j \in Records :
        /\ InBoxOf(i) = {}
        /\ ~IsMatched(matches[i])
        /\ InBoxOf(j) # {}
        /\ AcceptableInBox(j) = {}
        /\ ~IsMatched(matches[j])

(***************************************************************************)
(* C10: every record carries the ten fields of its site with the values    *)
(* of the input frame, and besides them the eight match fields only.       *)
(***************************************************************************)
C10_SiteFieldsKept ==
    \A i \in Records :
        /\ i <= Len(sites)
        /\ DOMAIN sites[i] = SiteFields
        /\ DOMAIN matches[i] = SiteFields \cup MatchFields
        /\ \A f \in SiteFields : matches[i][f] = sites[i][f]

\* a matched record whose patch is not at the site's longitude, beside an
\* unmatched record
C10_Witness ==
    /\ \E i \in Records :
          /\ IsMatched(matches[i])
          /\ PatchOf(matches[i]).centre_lon # SiteLon(i)
    /\ \E j \in Records : ~IsMatched(matches[j])

(***************************************************************************)
(* C11: the lag_days of a matched record is a non-negative number of whole *)
(* days: the absolute difference between the acquisition timestamp of the  *)
(* patch and the sample midpoint of the site, rounded down to days; it is  *)
(* the same number when the two instants are swapped.                      *)
(***************************************************************************)
\* the lag the code computes for an acquisition at hour ts and a midpoint at mid
LagBetween(ts, mid) == WithLag(<<[timestamp_dt |-> Some(ts)]>>, Some(mid))[1].lag_days

C11_LagWholeDays ==
    \A i \in Records :
        IsMatched(matches[i]) =>
            /\ NotNull(matches[i].eo_timestamp)
            /\ NotNull(matches[i].lag_days)
            /\ LET ts == matches[i].eo_timestamp[1]
                   mid == matches[i].Sample_midpoint[1]
                   gap == IF ts >= mid THEN ts - mid ELSE mid - ts
                   n == matches[i].lag_days[1]
               IN  /\ n \in Nat
                   /\ n * 24 <= gap
                   /\ gap < (n + 1) * 24
                   /\ LagBetween(ts, mid) = Some(n)
                   /\ LagBetween(mid, ts) = Some(n)

\* a matched record whose patch was acquired before the sample, not a whole
\* number of days apart
C11_Witness ==
    \E i \in Records :
        /\ IsMatched(matches[i])
        /\ matches[i].eo_timestamp[1] < matches[i].Sample_midpoint[1]
        /\ (matches[i].Sample_midpoint[1] - matches[i].eo_timestamp[1]) % 24 # 0
        /\ matches[i].lag_days[1] > 0

(***************************************************************************)
(* C16: match_nearest_patches returns a record for every site whatever     *)
(* metadata it has loaded; a timestamp that did not parse, on the patch    *)
(* that is the best candidate of a site, does not abort the loop.          *)
(***************************************************************************)
C16_MissingTimestampDoesNotAbort ==
    [][ pc = "match" =>
            /\ pc' # "raised"
            /\ pc' = "stats" => Len(matches') = Len(sites) ]_vars

(***************************************************************************)
(* C12: every site load_predicts_sites returns has one of the land uses    *)
(* Cropland, Pasture, Plantation forest, a latitude, a longitude and a     *)
(* Sample_midpoint that parsed to a date; every row of either file that    *)
(* has all of these is returned, once and in the order of the files; and   *)
(* site_uid is Source_ID, "::" and Site_number joined.                     *)
(***************************************************************************)
\* a row of a csv file has all that the claim requires
Qualifies(row) ==
    /\ row.Predominant_land_use \in {"Cropland", "Pasture", "Plantation forest"}
    /\ row.Latitude # <<>>
    /\ row.Longitude # <<>>
    /\ row.Sample_midpoint # <<>>
    /\ row.Sample_midpoint[1] >= 0

\* (file, Source_ID, Site_number) of the rows of a file that qualify
QualifyingOf(rows, name) ==
    LET kept == SelectSeq(rows, Qualifies)
    IN  [i \in 1..Len(kept) |-> <<name, kept[i].Source_ID, kept[i].Site_number>>]

C12_AgriculturalSitesLoaded ==
    pc = "read_metadata" =>
        /\ \A i \in 1..Len(sites) :
              /\ sites[i].Predominant_land_use \in {"Cropland", "Pasture", "Plantation forest"}
              /\ sites[i].Latitude # <<>>
              /\ sites[i].Longitude # <<>>
              /\ sites[i].Sample_midpoint # <<>>
              /\ sites[i].Sample_midpoint[1] >= 0
              /\ sites[i].site_uid
                    = sites[i].Source_ID \o "::" \o ToString(sites[i].Site_number)
        /\ [i \in 1..Len(sites) |->
               <<sites[i].source_file, sites[i].Source_ID, sites[i].Site_number>>]
             = QualifyingOf(csv2016, "site-level-summaries.csv")
               \o QualifyingOf(csv2022, "site-level-summary.csv")

\* a load that kept a row and dropped a row whose Sample_midpoint is no date
C12_Witness ==
    /\ pc = "read_metadata"
    /\ Len(sites) = 1
    /\ sites[1].site_uid \in {"S1::1", "S1::4", "S2::2"}
    /\ \E i \in 1..Len(csv2016) :
          csv2016[i].Sample_midpoint # <<>> /\ csv2016[i].Sample_midpoint[1] < 0

(***************************************************************************)
(* C13: the frame load_data returns, in each of the four figure scripts,   *)
(* holds the sites the match step recorded as matched and no other: a      *)
(* record whose product_id is null is dropped, every other record is kept. *)
(***************************************************************************)
\* the site_uid column of a sequence of records
UidsOf(records) == [i \in 1..Len(records) |-> records[i].site_uid]

InWindow ==
    {i \in 1..Len(figure.matches_df) :
        /\ figure.matches_df[i].predicts_year \in 2016..2018
        /\ figure.matches_df[i].major_tom_year \in 2016..2018}

CountsAddUp ==
    /\ figure.overlap_sites = Cardinality(InWindow)
    /\ figure.gap_sites = Len(figure.matches_df) - Cardinality(InWindow)
    /\ figure.overlap_sites + figure.gap_sites = Len(figure.matches_df)

C14_PercentagesAddTo100 ==
    figure.status = "drawn" =>
        /\ CountsAddUp
        /\ FloatAdd(figure.overlap_pct, figure.gap_pct) = FloatOfInt(100)

(***************************************************************************)
(* C14, amended: the counts are as stated, and overlap_pct + gap_pct is    *)
(* 100 or one of the two floats next to 100: each percentage is rounded    *)
(* twice, after the division and after the multiplication.                 *)
(***************************************************************************)
C14_PercentagesAddToAbout100 ==
    figure.status = "drawn" =>
        /\ CountsAddUp
        /\ WithinOneUlp(FloatAdd(figure.overlap_pct, figure.gap_pct), FloatOfInt(100))

\* three matched sites, one of them in the window: the sum is the float below 100
C14_Witness ==
    /\ figure.status = "drawn"
    /\ Len(figure.matches_df) = 3
    /\ figure.overlap_sites = 1
    /\ figure.gap_sites = 2
    /\ FloatAdd(figure.overlap_pct, figure.gap_pct) # FloatOfInt(100)

RecordAlone(site_row) ==
    LET lat == site_row.Latitude[1]
        lon == site_row.Longitude[1]
        candidates == BoundingBox(ReadMetadata(parquet), lat, lon, search_radius_deg)
        accepted == CloudFilter(WithDistance(candidates, lat, lon), max_cloud_cover)
    IN  IF Len(candidates) = 0 THEN NoPatchRecord(site_row)
        ELSE IF Len(accepted) = 0 THEN NoAcceptableRecord(site_row)
        ELSE MatchedRecord(site_row,
                           BestMatch(accepted, site_row.Sample_midpoint, max_candidates))

C18_StagesMeetAtFixedPaths ==
    /\ [](/\ fsys.ret \in {<<>>, <<fsys.dest>>}
          /\ fsys.stage = "downloaded" => fsys.ret = <<fsys.dest>>
          /\ fsys.ret = <<DefaultDestPath>> =>
                \A f \in fsys.read :
                    f.file.path \in {MatchMetadataPath, CoverageMetadataPath}
                        => f.file.by = "download"
          /\ fsys.ret = <<DefaultDestPath>> /\ fsys.stage = "downloaded" =>
                \E f \in fsys.files :
                    /\ f.by = "download"
                    /\ f.path = MatchMetadataPath
                    /\ f.path = CoverageMetadataPath
          /\ fsys.stage = "matched" =>
                \A script \in VizScripts :
                    [path |-> VizInputPath(script), by |-> "match"] \in fsys.files
          /\ \A f \in fsys.files : f.by = "download" => Parent(f.path) \in fsys.dirs)
    /\ [][ (\E f \in fsys'.files : f.by = "download" /\ f \notin fsys.files)
              => Parent(fsys.dest) \in fsys.dirs ]_vars

\* the four figure scripts have read the file of the match step, and
\* temporal_coverage the metadata file that download wrote at its default path
C18_Witness ==
    /\ fsys.stage = "matched"
    /\ fsys.ret = <<DefaultDestPath>>
    /\ \A script \in VizScripts :
          [script |-> script, file |-> [path |-> MatchOutputPath, by |-> "match"]]
              \in fsys.read
    /\ [script |-> "temporal_coverage",
        file |-> [path |-> DefaultDestPath, by |-> "download"]] \in fsys.read
    /\ [script |-> "match",
        file |-> [path |-> DefaultDestPath, by |-> "download"]] \in fsys.read

====
